---- MODULE Spec2Model ----
(***************************************************************************)
(* A model of bic_parallel_coords.py (class BiclusterVisualizer):          *)
(*   - load_biclusters: the line loop over a BicPAMS results file          *)
(*   - __load_data_arff: the line loop over an ARFF header and its data    *)
(*   - plot_parallel_categories / plot_parallel_coordinates: one render    *)
(*     call on a session (the counter, the files written)                  *)
(* Python strings are TLA+ strings; Python lists are sequences; a dict is  *)
(* a function whose domain is its set of keys.                             *)
(***************************************************************************)
EXTENDS Integers, Sequences, FiniteSets, TLC

VARIABLES
    \* load_biclusters
    f,              \* the lines of the results file read so far
    results,        \* dict: block index -> list of bicluster dicts
    i,              \* index of the current block, -1 before the first
    flag,           \* 1 inside a block, 0 outside
    bic_batch,      \* the records of the current block
    load_pc,        \* "reading" | "returned" | "raised"
    \* __load_data_arff
    af,             \* the lines of the ARFF file read so far
    a_flag,         \* 1 once @DATA was read
    a_counter,      \* number of @ATTRIBUTE lines read
    a_main_var,     \* list of {'var', 'vals'} dicts
    a_cols,         \* the attribute names, in order
    a_data,         \* the raw data rows
    a_df,           \* the returned frame: [columns, rows]
    a_pc,           \* "reading" | "returned" | "raised"
    \* render session
    counter,        \* self.counter
    df,             \* the dataset handed to every render call
    main_var,       \* the column metadata handed to every render call
    written,        \* the paths write_html has written, in order
    dirs,           \* the directories os.makedirs has created
    log,            \* the outcome of each render call made, in order
    last            \* the last render call: its inputs and its outcome

vars ==
    <<f, results, i, flag, bic_batch, load_pc,
      af, a_flag, a_counter, a_main_var, a_cols, a_data, a_df, a_pc,
      counter, df, main_var, written, dirs, log, last>>

bic_vars ==
    <<f, results, i, flag, bic_batch, load_pc>>

arff_vars ==
    <<af, a_flag, a_counter, a_main_var, a_cols, a_data, a_df, a_pc>>

render_vars ==
    <<counter, df, main_var, written, dirs, log, last>>

(***************************************************************************)
(* Bounds of the model.                                                    *)
(***************************************************************************)
MaxLines ==
    4

MaxArffLines ==
    4

MaxRows ==
    3

MaxCalls ==
    2

(***************************************************************************)
(* Python's str methods.                                                   *)
(***************************************************************************)
Ch(s, k) ==
    SubSeq(s, k, k)

startswith(s, p) ==
    Len(s) >= Len(p) /\ SubSeq(s, 1, Len(p)) = p

RECURSIVE lstrip(_, _)
lstrip(s, chars) ==
    IF Len(s) > 0 /\ Ch(s, 1) \in chars
    THEN lstrip(SubSeq(s, 2, Len(s)), chars)
    ELSE s

RECURSIVE rstrip(_, _)
rstrip(s, chars) ==
    IF Len(s) > 0 /\ Ch(s, Len(s)) \in chars
    THEN rstrip(SubSeq(s, 1, Len(s) - 1), chars)
    ELSE s

strip_chars(s, chars) ==
    rstrip(lstrip(s, chars), chars)

Whitespace ==
    {" ", "\t", "\n", "\r"}

strip(s) ==
    strip_chars(s, Whitespace)

\* Index of the first occurrence of sep in s, 0 when there is none.
find(s, sep) ==
    LET hits == {k \in 1..(Len(s) - Len(sep) + 1) : SubSeq(s, k, k + Len(sep) - 1) = sep}
    IN  IF hits = {} THEN 0 ELSE CHOOSE k \in hits : \A h \in hits : k <= h

\* str.split(sep) with a non-empty separator: never an empty list.
RECURSIVE split(_, _)
split(s, sep) ==
    LET k == find(s, sep)
    IN  IF k = 0
        THEN <<s>>
        ELSE <<SubSeq(s, 1, k - 1)>> \o split(SubSeq(s, k + Len(sep), Len(s)), sep)

DigitStr ==
    <<"0", "1", "2", "3", "4", "5", "6", "7", "8", "9">>

IsDigit(c) ==
    \E d \in 1..10 : DigitStr[d] = c

DigitVal(c) ==
    (CHOOSE d \in 1..10 : DigitStr[d] = c) - 1

\* str(n) of a natural number.
RECURSIVE str(_)
str(n) ==
    IF n < 10 THEN DigitStr[n + 1] ELSE str(n \div 10) \o DigitStr[(n % 10) + 1]

RECURSIVE DigitsValue(_)
DigitsValue(s) ==
    IF Len(s) = 0
    THEN 0
    ELSE 10 * DigitsValue(SubSeq(s, 1, Len(s) - 1)) + DigitVal(Ch(s, Len(s)))

AllDigits(s) ==
    \A k \in 1..Len(s) : IsDigit(Ch(s, k))

(***************************************************************************)
(* float(s) on plain decimal text (digits, at most one point), which is    *)
(* all the modelled files hold: surrounding whitespace is dropped, any     *)
(* other character makes float raise ValueError.  The value m / 10^e is    *)
(* kept as <<m, e>> with trailing zeros of the fraction removed, so that   *)
(* equal numbers are equal values.                                         *)
(***************************************************************************)
float_raises(s) ==
    LET t == strip(s)
        parts == split(t, ".")
    IN  \/ Len(parts) > 2
        \/ \E k \in 1..Len(parts) : ~AllDigits(parts[k])
        \/ Len(t) - (Len(parts) - 1) = 0

RECURSIVE Normal(_, _)
Normal(m, e) ==
    IF e > 0 /\ m % 10 = 0 THEN Normal(m \div 10, e - 1) ELSE <<m, e>>

float(s) ==
    LET t == strip(s)
        parts == split(t, ".")
        frac == IF Len(parts) = 2 THEN parts[2] ELSE ""
    IN  Normal(DigitsValue(parts[1] \o frac), Len(frac))

(***************************************************************************)
(* load_biclusters                                                         *)
(***************************************************************************)
EmptyDict ==
    [k \in {} |-> {}]

\* d[key] = value on a dict.
SetItem(d, key, value) ==
    (key :> value) @@ d

\* The lines a results file is made of.
BicLines ==
    { "FOUND\n",
      "\n",
      "# note\n",
      " I=[1,2] Y=[a,b] X=[0,1] pvalue=0.01\n",
      " X=[7] pvalue=0.5 Y=[b] I=[2] Lifts=[1.5, 2.0]\n",
      " I=[3] Y=[a] X=[4,5]\n",
      " I=[1] Lifts=[1.5,2.0] X=[3]\n" }

\* lstrip("[").rstrip("]").split(',') of the text after the token's "=".
BracketItems(elem) ==
    split(rstrip(lstrip(split(elem, "=")[2], {"["}), {"]"}), ",")

\* The text of the whole line after "Lifts=", lstrip("[").rstrip("]\n").split(',').
LiftItems(line) ==
    split(rstrip(lstrip(split(line, "Lifts=")[2], {"["}), {"]", "\n"}), ",")

\* for elem in line.split(" "): the if/elif chain on the token's prefix.  The
\* result is the dict built, or raised when a float() raised ValueError.
RECURSIVE ScanTokens(_, _, _)
ScanTokens(line, elems, current_bic) ==
    IF elems = <<>>
    THEN [raised |-> FALSE, bic |-> current_bic]
    ELSE LET elem == Head(elems)
         IN  IF startswith(elem, "I=")
             THEN ScanTokens(line, Tail(elems),
                             SetItem(current_bic, "pattern", BracketItems(elem)))
             ELSE IF startswith(elem, "Y=")
             THEN ScanTokens(line, Tail(elems),
                             SetItem(current_bic, "cols", BracketItems(elem)))
             ELSE IF startswith(elem, "X=")
             THEN ScanTokens(line, Tail(elems),
                             SetItem(current_bic, "lines", BracketItems(elem)))
             ELSE IF startswith(elem, "pvalue=")
             THEN IF float_raises(split(elem, "=")[2])
                  THEN [raised |-> TRUE, bic |-> current_bic]
                  ELSE ScanTokens(line, Tail(elems),
                                  SetItem(current_bic, "pvalue", float(split(elem, "=")[2])))
             ELSE IF startswith(elem, "Lifts=")
             THEN LET items == LiftItems(line)
                  IN  IF \E k \in 1..Len(items) : float_raises(items[k])
                      THEN [raised |-> TRUE, bic |-> current_bic]
                      ELSE [raised |-> FALSE,
                            bic |-> SetItem(current_bic, "lifts",
                                            [k \in 1..Len(items) |-> float(items[k])])]
             ELSE ScanTokens(line, Tail(elems), current_bic)

\* The record of one line: current_bic = {} and the token loop.
ParseRecord(line) ==
    ScanTokens(line, split(line, " "), EmptyDict)

\* CommitBatch committing only a batch that holds a record.
CommitBatch_NonEmptyOnly(res, idx, batch) ==
    IF idx >= 0 /\ batch # <<>> THEN SetItem(res, idx, batch) ELSE res

\* The blank-line branch: if i>=0: results[i] = bic_batch.
CommitBatch(res, idx, batch) ==
    IF idx >= 0 THEN SetItem(res, idx, batch) ELSE res

\* ReturnResults committing the pending batch at end of input.
ReturnResults_CommitAtEof(res, idx, batch) ==
    IF idx >= 0 THEN SetItem(res, idx, batch) ELSE res

\* return results, after the loop: nothing is committed at end of input.
ReturnResults(res, idx, batch) ==
    res

\* One iteration of "for line in f".  results[i] holds the list bic_batch is
\* bound to, but no append reaches that list after the commit: flag is 0 until
\* the next FOUND line binds bic_batch to a new list.
ReadLine ==
    /\ load_pc = "reading"
    /\ Len(f) < MaxLines
    /\ \E line \in BicLines :
        /\ f' = Append(f, line)
        /\ IF strip(line) # ""
           THEN IF startswith(line, "FOUND")
                THEN /\ i' = i + 1
                     /\ bic_batch' = <<>>
                     /\ flag' = 1
                     /\ UNCHANGED <<results, load_pc>>
                ELSE IF startswith(line, " ") /\ flag = 1
                THEN LET r == ParseRecord(line)
                     IN  IF r.raised
                         THEN /\ load_pc' = "raised"
                              /\ UNCHANGED <<results, i, flag, bic_batch>>
                         ELSE /\ bic_batch' = Append(bic_batch, r.bic)
                              /\ UNCHANGED <<results, i, flag, load_pc>>
                ELSE UNCHANGED <<results, i, flag, bic_batch, load_pc>>
           ELSE /\ results' = CommitBatch(results, i, bic_batch)
                /\ flag' = 0
                /\ UNCHANGED <<i, bic_batch, load_pc>>

\* End of input: the loop ends and results is returned.
EndOfFile ==
    /\ load_pc = "reading"
    /\ results' = ReturnResults(results, i, bic_batch)
    /\ load_pc' = "returned"
    /\ UNCHANGED <<f, i, flag, bic_batch>>

(***************************************************************************)
(* __load_data_arff                                                        *)
(***************************************************************************)
\* The lines an ARFF file is made of.
ArffLines ==
    { "@RELATION r\n",
      "@ATTRIBUTE\tattr1\tNUMERIC\n",
      "@ATTRIBUTE\tattr2\t{A,B}\n",
      "@ATTRIBUTE\tattr3\n",
      "@DATA\n",
      "1,A\n",
      "\n" }

\* The characters of strip("[ ,'}\"\n]").
AttrStripChars ==
    {"[", " ", ",", "'", "}", "\"", "\n", "]"}

\* (counter>1) and len(line.split("{")[0])>1
TakesDeclaredValues(cnt, line) ==
    cnt > 1 /\ Len(split(line, "{")[1]) > 1

\* [x.strip("[ ,'}\"\n]") for x in line.split("\t")[2].split(",")]
DeclaredValues(line) ==
    LET xs == split(split(line, "\t")[3], ",")
    IN  [k \in 1..Len(xs) |-> strip_chars(xs[k], AttrStripChars)]

\* ''.join(line.split("\t")[1].strip("[ ,'}\"\n]"))
AttrVar(line) ==
    strip_chars(split(line, "\t")[2], AttrStripChars)

\* The @ATTRIBUTE branch raises IndexError when the line has no second
\* tab-separated field, or no third one where the declared values are read.
AttributeRaises(cnt, line) ==
    \/ Len(split(line, "\t")) < 2
    \/ TakesDeclaredValues(cnt, line) /\ Len(split(line, "\t")) < 3

\* The dict appended to main_var for the cnt-th @ATTRIBUTE line.
AttrEntry(cnt, line) ==
    IF TakesDeclaredValues(cnt, line)
    THEN [var |-> AttrVar(line), vals |-> DeclaredValues(line)]
    ELSE [var |-> AttrVar(line), vals |-> <<>>]

\* The positions of cols whose name did not occur at an earlier position.
FirstOccurrences(cs) ==
    {c \in 1..Len(cs) : \A j \in 1..(c - 1) : cs[j] # cs[c]}

RECURSIVE SortedSeq(_)
SortedSeq(S) ==
    IF S = {}
    THEN <<>>
    ELSE LET m == CHOOSE x \in S : \A y \in S : x <= y
         IN  <<m>> \o SortedSeq(S \ {m})

\* final_cols and final_data of the loop over range(len(cols)).
FinalFrame(cs, data) ==
    LET kept == SortedSeq(FirstOccurrences(cs))
    IN  [columns |-> [k \in 1..Len(kept) |-> cs[kept[k]]],
         rows |-> IF kept = <<>>
                  THEN <<>>
                  ELSE [l \in 1..Len(data) |-> [k \in 1..Len(kept) |-> data[l][kept[k]]]]]

\* data[l][col] raises IndexError on a row with fewer cells than the column's position.
FinalFrameRaises(cs, data) ==
    \E c \in FirstOccurrences(cs) : \E l \in 1..Len(data) : Len(data[l]) < c

NoFrame ==
    [columns |-> <<>>, rows |-> <<>>]

\* One iteration of "for line in f".
ArffReadLine ==
    /\ a_pc = "reading"
    /\ Len(af) < MaxArffLines
    /\ \E line \in ArffLines :
        /\ af' = Append(af, line)
        /\ IF strip(line) # ""
           THEN IF a_flag = 1
                THEN /\ a_data' = Append(a_data, split(rstrip(line, {"\n"}), ","))
                     /\ UNCHANGED <<a_flag, a_counter, a_main_var, a_cols, a_pc>>
                ELSE IF startswith(line, "@ATTRIBUTE")
                THEN /\ a_counter' = a_counter + 1
                     /\ IF AttributeRaises(a_counter + 1, line)
                        THEN /\ a_pc' = "raised"
                             /\ UNCHANGED <<a_main_var, a_cols>>
                        ELSE /\ a_main_var' = Append(a_main_var, AttrEntry(a_counter + 1, line))
                             /\ a_cols' = Append(a_cols, strip(split(line, "\t")[2]))
                             /\ UNCHANGED a_pc
                     /\ UNCHANGED <<a_flag, a_data>>
                ELSE IF startswith(line, "@DATA")
                THEN /\ a_flag' = 1
                     /\ UNCHANGED <<a_counter, a_main_var, a_cols, a_data, a_pc>>
                ELSE UNCHANGED <<a_flag, a_counter, a_main_var, a_cols, a_data, a_pc>>
           ELSE UNCHANGED <<a_flag, a_counter, a_main_var, a_cols, a_data, a_pc>>
        /\ UNCHANGED a_df

\* End of input: the frame is built and (df, main_var) returned.  The cells
\* are strings, so dropna(how='all') drops no row.
ArffEndOfFile ==
    /\ a_pc = "reading"
    /\ IF FinalFrameRaises(a_cols, a_data)
       THEN a_pc' = "raised" /\ UNCHANGED a_df
       ELSE a_pc' = "returned" /\ a_df' = FinalFrame(a_cols, a_data)
    /\ UNCHANGED <<af, a_flag, a_counter, a_main_var, a_cols, a_data>>

(***************************************************************************)
(* plot_parallel_categories and plot_parallel_coordinates                  *)
(***************************************************************************)
\* The datasets of a session: three columns, the first one the row labels.
Columns ==
    <<"id", "c1", "c2">>

FirstColValues ==
    {"0", "1"}

RowOf(v) ==
    <<v, "5", "x">>

Datasets ==
    UNION { [1..n -> {RowOf(v) : v \in FirstColValues}] : n \in 0..MaxRows }

\* The column metadata of a session: what the CSV and TXT loaders return, what
\* the ARFF loader returns (no declared values on the first entry), and a
\* caller's list whose first entry has declared values.
MainVars ==
    { <<>>,
      <<[var |-> "attr1", vals |-> <<>>], [var |-> "attr2", vals |-> <<"A", "B">>]>>,
      <<[var |-> "class", vals |-> <<"A", "B">>]>> }

\* The bicluster dicts handed to a render call.
BicInputs ==
    { SetItem(SetItem(st, "cols", cs), "lines", ls) :
        st \in { EmptyDict,
                 SetItem(EmptyDict, "pvalue", <<1, 2>>),
                 SetItem(SetItem(EmptyDict, "pvalue", <<1, 2>>), "lifts", <<<<15, 1>>, <<2, 0>>>>) },
        cs \in { <<"c1">>, <<"c1", "c2">>, <<"c1", "zz">> },
        ls \in { <<"0", "2">> } }

Folders ==
    {"A", "B"}

\* df.iloc[:,0].values
FirstColumn(d) ==
    [k \in 1..Len(d.rows) |-> d.rows[k][1]]

\* len(set(df.iloc[:,0].values))
DistinctCount(d) ==
    Cardinality({FirstColumn(d)[k] : k \in 1..Len(FirstColumn(d))})

\* PositionalInCategories with the halving on the wrong side of the comparison.
PositionalInCategories_HalvedDistinct(d) ==
    DistinctCount(d) < 2 * Len(d.rows)

\* PositionalInCategories with a floor division (// instead of /).
PositionalInCategories_FloorDivision(d) ==
    DistinctCount(d) < Len(d.rows) \div 2

\* len(set(df.iloc[:,0].values)) < len(df.iloc[:,0])/2, a true division
PositionalInCategories(d) ==
    2 * DistinctCount(d) < Len(d.rows)

\* len(set(df.iloc[:,0].values)) < len(df.iloc[:,0])
PositionalInCoordinates(d) ==
    DistinctCount(d) < Len(d.rows)

\* [1 if str(x) in bic['lines'] else 0 for x in range(len(df))]
PositionalColor(d, lines) ==
    [k \in 1..Len(d.rows) |-> IF \E j \in 1..Len(lines) : lines[j] = str(k - 1) THEN 1 ELSE 0]

\* [1 if x in bic['lines'] else 0 for x in list(df.iloc[:,0].values)]
ValueColor(d, lines) ==
    [k \in 1..Len(d.rows) |-> IF \E j \in 1..Len(lines) : lines[j] = d.rows[k][1] THEN 1 ELSE 0]

\* HasColumns looking up the first name only.
HasColumns_FirstOnly(d, cs) ==
    cs = <<>> \/ \E c \in 1..Len(d.columns) : d.columns[c] = cs[1]

\* df[bic['cols']] finds every name among the frame's columns (KeyError otherwise).
HasColumns(d, cs) ==
    \A k \in 1..Len(cs) : \E c \in 1..Len(d.columns) : d.columns[c] = cs[k]

\* replace('?', nan) then apply(pd.to_numeric): ValueError on a cell of the
\* projected columns that is neither '?' nor a number.
ToNumericRaises(d, cs) ==
    \E k \in 1..Len(cs) : \E c \in 1..Len(d.columns) : \E r \in 1..Len(d.rows) :
        /\ d.columns[c] = cs[k]
        /\ d.rows[r][c] # "?"
        /\ float_raises(d.rows[r][c])

\* Decimal rounding of <<m, e>> (m / 10^e) to at most n fractional digits.
RECURSIVE RoundTo(_, _)
RoundTo(p, n) ==
    IF p[2] > n THEN RoundTo(<<(p[1] + 5) \div 10, p[2] - 1>>, n) ELSE Normal(p[1], p[2])

\* The lift lines: one per declared value, paired by position with bic["lifts"].
LiftLines(vals, lifts) ==
    [k \in 1..Len(vals) |-> [name |-> vals[k], value |-> RoundTo(lifts[k], 3)]]

NoAnnotation ==
    [shown |-> FALSE, pvalue |-> <<0, 0>>, lift |-> <<>>]

\* "P-value = {:.3e}".format(bic['pvalue']) + lift
Annotation(pvalue, lift) ==
    [shown |-> TRUE, pvalue |-> pvalue, lift |-> lift]

\* if main_var: main_var = main_var[0]
FirstMeta(mv) ==
    IF mv # <<>> THEN mv[1] ELSE mv

HasKey(d, key) ==
    key \in DOMAIN d

CategoriesDir(folder_name) ==
    "results/ParallelCategories (" \o folder_name \o ")/"

CoordinatesDir(folder_name) ==
    "results/ParallelCoordinates (" \o folder_name \o ")/"

\* FileName with the counter incremented before the write.
FileName_AfterIncrement(c) ==
    "pc_" \o str(c + 1) \o ".html"

\* The file name of the chart written at counter value c.
FileName(c) ==
    "pc_" \o str(c) \o ".html"

\* self.counter += 1
NextCounter(c) ==
    c + 1

Outcome(status, color, annotation, dir) ==
    [status |-> status, color |-> color, annotation |-> annotation, dir |-> dir]

\* plot_parallel_categories up to the write: the exception raised, or "ok"
\* with the colour vector and the annotation of the figure.
CategoriesOutcome(bic, d, mv, folder_name) ==
    LET meta == FirstMeta(mv)
        color == IF PositionalInCategories(d)
                 THEN PositionalColor(d, bic["lines"])
                 ELSE ValueColor(d, bic["lines"])
        dir == CategoriesDir(folder_name)
    IN  IF ~HasColumns(d, bic["cols"])
        THEN Outcome("KeyError", color, NoAnnotation, dir)
        ELSE IF ~HasKey(bic, "pvalue")
        THEN Outcome("ok", color, NoAnnotation, dir)
        ELSE IF meta # <<>> /\ meta.vals # <<>> /\ HasKey(bic, "lifts")
        THEN IF Len(bic["lifts"]) < Len(meta.vals)
             THEN Outcome("IndexError", color, NoAnnotation, dir)
             ELSE Outcome("ok", color,
                          Annotation(bic["pvalue"], LiftLines(meta.vals, bic["lifts"])), dir)
        ELSE Outcome("ok", color, Annotation(bic["pvalue"], <<>>), dir)

\* plot_parallel_coordinates up to the write.  main_var['vals'] is read
\* without testing main_var first: on the empty list it raises TypeError.
CoordinatesOutcome(bic, d, mv, folder_name) ==
    LET meta == FirstMeta(mv)
        color == IF PositionalInCoordinates(d)
                 THEN PositionalColor(d, bic["lines"])
                 ELSE ValueColor(d, bic["lines"])
        dir == CoordinatesDir(folder_name)
    IN  IF ~HasColumns(d, bic["cols"])
        THEN Outcome("KeyError", color, NoAnnotation, dir)
        ELSE IF ToNumericRaises(d, bic["cols"])
        THEN Outcome("ValueError", color, NoAnnotation, dir)
        ELSE IF ~HasKey(bic, "pvalue")
        THEN Outcome("ok", color, NoAnnotation, dir)
        ELSE IF meta = <<>>
        THEN Outcome("TypeError", color, NoAnnotation, dir)
        ELSE IF meta.vals # <<>> /\ HasKey(bic, "lifts")
        THEN IF Len(bic["lifts"]) < Len(meta.vals)
             THEN Outcome("IndexError", color, NoAnnotation, dir)
             ELSE Outcome("ok", color,
                          Annotation(bic["pvalue"], LiftLines(meta.vals, bic["lifts"])), dir)
        ELSE Outcome("ok", color, Annotation(bic["pvalue"], <<>>), dir)

NoCall ==
    [op |-> "none", bic |-> EmptyDict, folder_name |-> "", status |-> "none",
     color |-> <<>>, annotation |-> NoAnnotation, path |-> ""]

\* The end of a render call: on "ok" the directory is made, the file written
\* at the current counter and the counter incremented; an exception leaves
\* the session and the file system as they were.
Finish(op, bic, folder_name, r) ==
    /\ log' = Append(log, r.status)
    /\ IF r.status = "ok"
       THEN /\ dirs' = dirs \cup {r.dir}
            /\ written' = Append(written, r.dir \o FileName(counter))
            /\ counter' = NextCounter(counter)
            /\ last' = [op |-> op, bic |-> bic, folder_name |-> folder_name,
                        status |-> r.status, color |-> r.color,
                        annotation |-> r.annotation, path |-> r.dir \o FileName(counter)]
       ELSE /\ UNCHANGED <<dirs, written, counter>>
            /\ last' = [op |-> op, bic |-> bic, folder_name |-> folder_name,
                        status |-> r.status, color |-> r.color,
                        annotation |-> r.annotation, path |-> ""]
    /\ UNCHANGED <<df, main_var>>

plot_parallel_categories ==
    /\ Len(log) < MaxCalls
    /\ \E bic \in BicInputs, folder_name \in Folders :
        Finish("categories", bic, folder_name,
               CategoriesOutcome(bic, df, main_var, folder_name))

plot_parallel_coordinates ==
    /\ Len(log) < MaxCalls
    /\ \E bic \in BicInputs, folder_name \in Folders :
        Finish("coordinates", bic, folder_name,
               CoordinatesOutcome(bic, df, main_var, folder_name))

(***************************************************************************)
(* Specifications: one per operation, the state of the others at rest.     *)
(***************************************************************************)
InitLoaders ==
    /\ f = <<>>
    /\ results = EmptyDict
    /\ i = -1
    /\ flag = 0
    /\ bic_batch = <<>>
    /\ load_pc = "reading"
    /\ af = <<>>
    /\ a_flag = 0
    /\ a_counter = 0
    /\ a_main_var = <<>>
    /\ a_cols = <<>>
    /\ a_data = <<>>
    /\ a_df = NoFrame
    /\ a_pc = "reading"
    /\ counter = 0
    /\ df = [columns |-> Columns, rows |-> <<>>]
    /\ main_var = <<>>
    /\ written = <<>>
    /\ dirs = {}
    /\ log = <<>>
    /\ last = NoCall

NextBic ==
    \/ ReadLine /\ UNCHANGED <<arff_vars, render_vars>>
    \/ EndOfFile /\ UNCHANGED <<arff_vars, render_vars>>

SpecBic ==
    InitLoaders /\ [][NextBic]_vars

NextArff ==
    \/ ArffReadLine /\ UNCHANGED <<bic_vars, render_vars>>
    \/ ArffEndOfFile /\ UNCHANGED <<bic_vars, render_vars>>

SpecArff ==
    InitLoaders /\ [][NextArff]_vars

\* A freshly constructed BiclusterVisualizer (counter = 0) and the dataset
\* and metadata its render calls are given.
InitRender ==
    /\ f = <<>>
    /\ results = EmptyDict
    /\ i = -1
    /\ flag = 0
    /\ bic_batch = <<>>
    /\ load_pc = "reading"
    /\ af = <<>>
    /\ a_flag = 0
    /\ a_counter = 0
    /\ a_main_var = <<>>
    /\ a_cols = <<>>
    /\ a_data = <<>>
    /\ a_df = NoFrame
    /\ a_pc = "reading"
    /\ counter = 0
    /\ df \in {[columns |-> Columns, rows |-> rs] : rs \in Datasets}
    /\ main_var \in MainVars
    /\ written = <<>>
    /\ dirs = {}
    /\ log = <<>>
    /\ last = NoCall

NextRender ==
    \/ plot_parallel_categories /\ UNCHANGED <<bic_vars, arff_vars>>
    \/ plot_parallel_coordinates /\ UNCHANGED <<bic_vars, arff_vars>>

SpecRender ==
    InitRender /\ [][NextRender]_vars

(***************************************************************************)
(* Reading a results file as the claims describe it: a block is a FOUND    *)
(* line and the lines after it up to the next blank line or FOUND line.    *)
(***************************************************************************)
IsBlankLine(line) ==
    \A k \in 1..Len(line) : Ch(line, k) \in Whitespace

IsFoundLine(line) ==
    startswith(line, "FOUND")

FoundCount(file) ==
    Cardinality({k \in 1..Len(file) : IsFoundLine(file[k])})

\* The position of the FOUND line that opens block b (b counted from 0).
BlockStart(file, b) ==
    CHOOSE k \in 1..Len(file) :
        /\ IsFoundLine(file[k])
        /\ Cardinality({j \in 1..(k - 1) : IsFoundLine(file[j])}) = b

\* The position of the line that ends block b, Len(file) + 1 at end of input.
BlockEnd(file, b) ==
    LET ends == {k \in (BlockStart(file, b) + 1)..Len(file) :
                    IsBlankLine(file[k]) \/ IsFoundLine(file[k])}
    IN  IF ends = {} THEN Len(file) + 1 ELSE CHOOSE k \in ends : \A h \in ends : k <= h

BlockClosed(file, b) ==
    BlockEnd(file, b) <= Len(file) /\ IsBlankLine(file[BlockEnd(file, b)])

\* The space-prefixed record lines of block b, in file order.
BlockRecordLines(file, b) ==
    SortedSeq({k \in (BlockStart(file, b) + 1)..(BlockEnd(file, b) - 1) :
                  startswith(file[k], " ")})

Blocks(file) ==
    0..(FoundCount(file) - 1)

Tokens(line) ==
    split(line, " ")

HasToken(line, key) ==
    \E k \in 1..Len(Tokens(line)) : startswith(Tokens(line)[k], key)

TokenOf(line, key) ==
    Tokens(line)[CHOOSE k \in 1..Len(Tokens(line)) : startswith(Tokens(line)[k], key)]

RECURSIVE Without(_, _)
Without(s, chars) ==
    IF Len(s) = 0
    THEN ""
    ELSE IF Ch(s, 1) \in chars
    THEN Without(SubSeq(s, 2, Len(s)), chars)
    ELSE Ch(s, 1) \o Without(SubSeq(s, 2, Len(s)), chars)

\* The comma-separated items inside the brackets of the token, brackets and
\* newline removed.
ClaimedItems(line, key) ==
    split(Without(SubSeq(TokenOf(line, key), Len(key) + 1, Len(TokenOf(line, key))),
                  {"[", "]", "\n"}), ",")

ClaimedField(line, key, field, rec) ==
    IF HasToken(line, key)
    THEN field \in DOMAIN rec /\ rec[field] = ClaimedItems(line, key)
    ELSE field \notin DOMAIN rec

ClaimedPvalue(line, rec) ==
    IF HasToken(line, "pvalue=")
    THEN /\ "pvalue" \in DOMAIN rec
         /\ rec["pvalue"] = float(SubSeq(TokenOf(line, "pvalue="), 8,
                                         Len(TokenOf(line, "pvalue="))))
    ELSE "pvalue" \notin DOMAIN rec

\* C6: load_biclusters commits a block only when a blank line is read, never
\* at end of input: no index of the ResultSet is that of a block left open,
\* a sole FOUND block never closed by a blank line yields an empty ResultSet,
\* and so does a file with no FOUND line.
C6_CommitOnlyOnBlankLine ==
    /\ \A b \in DOMAIN results : b \in Blocks(f) /\ BlockClosed(f, b)
    /\ load_pc = "returned" =>
        /\ \A b \in Blocks(f) : ~BlockClosed(f, b) => b \notin DOMAIN results
        /\ (FoundCount(f) = 1 /\ ~BlockClosed(f, 0)) => results = EmptyDict
        /\ FoundCount(f) = 0 => results = EmptyDict

\* C6 witness: the file ends inside a second block that holds a record line;
\* the first block was closed and is the only one returned.
C6_Witness ==
    /\ load_pc = "returned"
    /\ FoundCount(f) = 2
    /\ BlockClosed(f, 0)
    /\ ~BlockClosed(f, 1)
    /\ BlockRecordLines(f, 1) # <<>>
    /\ bic_batch # <<>>
    /\ DOMAIN results = {0}

\* C7 as stated: a block with zero record lines before its terminating blank
\* line is never committed (the ResultSet has no entry for its index).
C7_EmptyBlockNeverCommitted ==
    load_pc = "returned" =>
        \A b \in Blocks(f) :
            (BlockClosed(f, b) /\ BlockRecordLines(f, b) = <<>>) => b \notin DOMAIN results

\* C7 amended: a block with zero record lines before its terminating blank
\* line is committed as an empty record list under its index.
C7_EmptyBlockCommittedEmpty ==
    load_pc = "returned" =>
        \A b \in Blocks(f) :
            (BlockClosed(f, b) /\ BlockRecordLines(f, b) = <<>>) =>
                (b \in DOMAIN results /\ results[b] = <<>>)

\* C7 witness: a FOUND line directly followed by a blank line, returned.
C7_Witness ==
    /\ load_pc = "returned"
    /\ Len(f) >= 2
    /\ IsFoundLine(f[1])
    /\ IsBlankLine(f[2])
    /\ 0 \in DOMAIN results
    /\ results[0] = <<>>

\* C8: every block that ends with a blank line is stored under its zero-based
\* index with one record per record line, in file order, each record's
\* pattern, columns and rows the bracketed items of its I=, Y= and X= tokens
\* (brackets and newline removed, wherever the token stands) and its pvalue
\* the parsed float; nothing else is stored.
C8_BlocksStoredAsWritten ==
    load_pc = "returned" =>
        /\ DOMAIN results = {b \in Blocks(f) : BlockClosed(f, b)}
        /\ \A b \in DOMAIN results :
            LET recs == BlockRecordLines(f, b)
            IN  /\ Len(results[b]) = Len(recs)
                /\ \A j \in 1..Len(recs) :
                    /\ ClaimedField(f[recs[j]], "I=", "pattern", results[b][j])
                    /\ ClaimedField(f[recs[j]], "Y=", "cols", results[b][j])
                    /\ ClaimedField(f[recs[j]], "X=", "lines", results[b][j])
                    /\ ClaimedPvalue(f[recs[j]], results[b][j])

\* A record line whose Lifts= token is followed by further tokens.
LiftsThenTokens(line) ==
    /\ startswith(line, " ")
    /\ ~IsBlankLine(line)
    /\ \E k \in 1..(Len(Tokens(line)) - 1) : startswith(Tokens(line)[k], "Lifts=")

\* The floats of the bracketed list that follows "Lifts=".
ClaimedLifts(line) ==
    LET after == split(line, "Lifts=")[2]
        inside == split(split(after, "]")[1], "[")[2]
        items == split(inside, ",")
    IN  [k \in 1..Len(items) |-> float(items[k])]

\* The part of the line before its Lifts= token.
BeforeLifts(line) ==
    split(line, "Lifts=")[1]

\* C10: a record line of an open block with a Lifts= token followed by further
\* tokens raises no error and yields one record, whose lifts are the floats of
\* the bracketed list and whose other fields are those of the tokens before
\* Lifts=.
C10_LiftsEndsTheScan ==
    [][ (/\ load_pc = "reading"
         /\ flag = 1
         /\ Len(f') = Len(f) + 1
         /\ LiftsThenTokens(f'[Len(f')]))
        => (/\ load_pc' = "reading"
            /\ Len(bic_batch') = Len(bic_batch) + 1
            /\ LET rec == bic_batch'[Len(bic_batch')]
                   line == f'[Len(f')]
               IN  /\ "lifts" \in DOMAIN rec
                   /\ rec["lifts"] = ClaimedLifts(line)
                   /\ ClaimedField(BeforeLifts(line), "I=", "pattern", rec)
                   /\ ClaimedField(BeforeLifts(line), "Y=", "cols", rec)
                   /\ ClaimedField(BeforeLifts(line), "X=", "lines", rec)) ]_vars

(***************************************************************************)
(* Reading an ARFF header as the claims describe it.                       *)
(***************************************************************************)
\* The positions of the @ATTRIBUTE lines of the header (before @DATA).
AttributeLines(file) ==
    SortedSeq({k \in 1..Len(file) :
                  /\ startswith(file[k], "@ATTRIBUTE")
                  /\ \A j \in 1..(k - 1) : ~startswith(file[j], "@DATA")})

HasBracedList(line) ==
    find(line, "{") > 0

\* The comma-separated contents of the braced list, without the braces.
BracedContents(line) ==
    split(split(split(line, "{")[2], "}")[1], ",")

\* The declared values of the n-th attribute declaration.
ClaimedDeclaredValues(n, line) ==
    IF HasBracedList(line) /\ n > 1 THEN BracedContents(line) ELSE <<>>

\* C9: the metadata list has one entry per @ATTRIBUTE line in declaration
\* order; an entry's declared values are the contents of the braced list
\* (without the braces) when the declaration has one and is not the first,
\* and are empty otherwise.
C9_DeclaredValues ==
    a_pc = "returned" =>
        LET attrs == AttributeLines(af)
        IN  /\ Len(a_main_var) = Len(attrs)
            /\ \A n \in 1..Len(attrs) :
                a_main_var[n].vals = ClaimedDeclaredValues(n, af[attrs[n]])

(***************************************************************************)
(* A render call as the claims describe it.                                *)
(***************************************************************************)
Items(seq) ==
    {seq[k] : k \in 1..Len(seq)}

\* color[i] = 1 iff the stringified row index i is in the record's rows.
PositionalIndexing(d, rows) ==
    [k \in 1..Len(d.rows) |-> IF str(k - 1) \in Items(rows) THEN 1 ELSE 0]

\* color[i] = 1 iff the first-column value of row i is in the record's rows.
ValueMatching(d, rows) ==
    [k \in 1..Len(d.rows) |-> IF d.rows[k][1] \in Items(rows) THEN 1 ELSE 0]

RowCount(d) ==
    Len(d.rows)

FirstColumnDistinct(d) ==
    Cardinality({d.rows[k][1] : k \in 1..Len(d.rows)})

AllUnique(d) ==
    FirstColumnDistinct(d) = RowCount(d)

Called ==
    last.op \in {"categories", "coordinates"}

SuccessCount(outcomes) ==
    Cardinality({k \in 1..Len(outcomes) : outcomes[k] = "ok"})

ChartKinds ==
    {"ParallelCategories", "ParallelCoordinates"}

\* The paths a render call may write at index n.
PathsAt(n) ==
    {"results/" \o kind \o " (" \o folder_name \o ")/pc_" \o str(n) \o ".html" :
        kind \in ChartKinds, folder_name \in Folders}

\* C1: on a fresh session the k-th successful render call writes pc_<k-1>.html,
\* the counter is the number of successful calls so far, it never decreases
\* and grows by exactly one per successful call, and no index is written twice.
C1_CounterNamesFiles ==
    /\ [](/\ counter = SuccessCount(log)
          /\ Len(written) = SuccessCount(log)
          /\ \A k \in 1..Len(written) : written[k] \in PathsAt(k - 1)
          /\ \A j, k \in 1..Len(written) : j # k => written[j] # written[k])
    /\ [][ /\ counter' >= counter
           /\ (Len(log') = Len(log) + 1 /\ log'[Len(log')] = "ok")
                => (counter' = counter + 1 /\ written' = Append(written, last'.path))
           /\ (Len(log') = Len(log) + 1 /\ log'[Len(log')] # "ok")
                => (counter' = counter /\ written' = written) ]_vars

\* C1 witness: two successful calls, one of each kind, wrote pc_0 then pc_1.
C1_Witness ==
    /\ log = <<"ok", "ok">>
    /\ counter = 2
    /\ \E fa, fb \in Folders :
        written = <<"results/ParallelCategories (" \o fa \o ")/pc_0.html",
                    "results/ParallelCoordinates (" \o fb \o ")/pc_1.html">>

\* A record whose columns exist in the dataset and hold numbers.
PlainColumns(bic) ==
    bic["cols"] = <<"c1">>

\* C2: in both render operations, a record with a p-value rendered with empty
\* column metadata completes normally: the file is written with an annotation
\* holding only the P-value line and the counter counts it.  Lift lines are
\* there only when the metadata is non-empty, its first entry has declared
\* values and the record carries lifts.
C2_EmptyMetadataRenders ==
    /\ (Called /\ main_var = <<>> /\ "pvalue" \in DOMAIN last.bic /\ PlainColumns(last.bic))
        => /\ last.status = "ok"
           /\ last.annotation = [shown |-> TRUE, pvalue |-> last.bic["pvalue"], lift |-> <<>>]
           /\ written # <<>>
           /\ written[Len(written)] = last.path
           /\ counter = Len(written)
    /\ (Called /\ last.annotation.lift # <<>>)
        => /\ main_var # <<>>
           /\ main_var[1].vals # <<>>
           /\ "lifts" \in DOMAIN last.bic

\* C3 as stated: on a dataset whose first column is all-unique, numeric mode
\* colours by value-matching while categorical mode colours by positional
\* indexing.
C3_AllUniqueModesDiffer ==
    (Called /\ AllUnique(df)) =>
        /\ last.op = "coordinates" => last.color = ValueMatching(df, last.bic["lines"])
        /\ last.op = "categories" => last.color = PositionalIndexing(df, last.bic["lines"])

\* C3 amended: on a dataset whose first column is all-unique, numeric mode and
\* categorical mode both colour by value-matching.
C3_AllUniqueValueMatching ==
    (Called /\ AllUnique(df)) => last.color = ValueMatching(df, last.bic["lines"])

\* C3 witness: a categorical render of an all-unique dataset on which the two
\* rules give different vectors.
C3_Witness ==
    /\ last.op = "categories"
    /\ last.status = "ok"
    /\ AllUnique(df)
    /\ RowCount(df) >= 2
    /\ last.color = ValueMatching(df, last.bic["lines"])
    /\ last.color # PositionalIndexing(df, last.bic["lines"])

\* C4: categorical mode indexes by position iff 2*d < n and numeric mode iff
\* d < n (d the first column's distinct count, n the row count), by value
\* otherwise; so the two modes choose different rules exactly when
\* n <= 2*d and d < n.
C4_IndexingRule ==
    LET d == FirstColumnDistinct(df)
        n == RowCount(df)
    IN  /\ (Called /\ last.op = "categories") =>
              last.color = IF 2 * d < n
                           THEN PositionalIndexing(df, last.bic["lines"])
                           ELSE ValueMatching(df, last.bic["lines"])
        /\ (Called /\ last.op = "coordinates") =>
              last.color = IF d < n
                           THEN PositionalIndexing(df, last.bic["lines"])
                           ELSE ValueMatching(df, last.bic["lines"])
        /\ (PositionalInCategories(df) # PositionalInCoordinates(df)) <=> (n <= 2 * d /\ d < n)
        /\ (n <= 2 * d /\ d < n) => (PositionalInCoordinates(df) /\ ~PositionalInCategories(df))

\* C4 witness: a numeric render of a dataset with 0.5 <= d/n < 1, coloured by
\* position where value-matching would give another vector.
C4_Witness ==
    /\ last.op = "coordinates"
    /\ RowCount(df) <= 2 * FirstColumnDistinct(df)
    /\ FirstColumnDistinct(df) < RowCount(df)
    /\ last.color = PositionalIndexing(df, last.bic["lines"])
    /\ last.color # ValueMatching(df, last.bic["lines"])

NamesUnknownColumn(bic, d) ==
    \E k \in 1..Len(bic["cols"]) : bic["cols"][k] \notin Items(d.columns)

\* C5: a render call whose record names a column the dataset lacks raises a
\* lookup error with no file written, no directory made and the counter
\* unchanged; the next successful call writes the index the failed one would
\* have used.
C5_UnknownColumnWritesNothing ==
    [][ /\ (Len(log') = Len(log) + 1 /\ NamesUnknownColumn(last'.bic, df))
            => /\ log'[Len(log')] = "KeyError"
               /\ last'.path = ""
               /\ written' = written
               /\ dirs' = dirs
               /\ counter' = counter
        /\ (Len(log') = Len(log) + 1 /\ log # <<>> /\ log[Len(log)] = "KeyError"
              /\ log'[Len(log')] = "ok")
            => /\ last'.path \in PathsAt(SuccessCount(log))
               /\ written' = Append(written, last'.path) ]_vars

\* C5 witness: a call failed on an unknown column, and the successful call
\* after it wrote pc_0.html.
C5_Witness ==
    /\ log = <<"KeyError", "ok">>
    /\ NamesUnknownColumn(last.bic, df) = FALSE
    /\ Len(written) = 1
    /\ written[1] \in PathsAt(0)
    /\ counter = 1

====
